---------------------------- MODULE Spec2Model ----------------------------
(***************************************************************************)
(* A model of the Riko input-deck generators.                              *)
(*                                                                         *)
(*   scripts/app_gen.py     table-sweep mode: {{TOKEN}} rendering, job     *)
(*                          naming, one file per CSV row, CLI exit code    *)
(*   scripts/app1-input.py  combination mode: Cartesian product of the     *)
(*                          replacement candidates, sequential literal or  *)
(*                          case-insensitive replacement, zero-match skip  *)
(*                                                                         *)
(* Text is a sequence of one-character strings.  A dictionary is a         *)
(* function whose DOMAIN is its key set.  A dictionary value is a record:  *)
(* NoneVal for Python's None, StrVal(s) for the string s.                  *)
(***************************************************************************)
EXTENDS Integers, Sequences, FiniteSets, TLC

VARIABLES
    pc,                    \* position of the operation under study
    \* ---- scripts/app_gen.py
    template_text,         \* render_template / main: the template
    parameters,            \* render_template / determine_job_name: one row
    rendered,              \* render_template: the value returned
    missing_keys,          \* render_template: the tokens named by the KeyError
    name,                  \* sanitize_job_name: argument
    safe,                  \* sanitize_job_name: value returned
    index,                 \* determine_job_name: argument; main: loop index
    job_name,              \* determine_job_name: value returned
    parameter_sets,        \* main: rows of the parameter table
    jobs_dir_exists,       \* main: whether args.jobs_dir is a directory
    files,                 \* file system: file name -> contents
    generated_paths,       \* main: destinations written, in order
    exit_code,             \* main: value returned (NoneVal before it returns)
    \* ---- scripts/app1-input.py
    target_definitions,    \* build_combinations: argument
    combinations,          \* build_combinations: value returned
    selected_combinations, \* generate_files: argument
    template_content,      \* generate_files: argument
    search_mode,           \* generate_files: argument
    position,              \* generate_files: combinations consumed so far
    counts,                \* generate_files: counts of the last combination
    successful,            \* generate_files: counter
    skipped,               \* generate_files: skipped labels
    written                \* generate_files: names passed to write_text, in order

sweepVars == <<template_text, parameters, rendered, missing_keys, name, safe,
               index, job_name, parameter_sets, jobs_dir_exists,
               generated_paths, exit_code>>
comboVars == <<target_definitions, combinations, selected_combinations,
               template_content, search_mode, position, counts, successful,
               skipped, written>>
vars == <<pc, files, sweepVars, comboVars>>

----------------------------------------------------------------------------
(* Characters and strings                                                  *)

Upper == {"A","B","C","D","E","F","G","H","I","J","K","L","M",
          "N","O","P","Q","R","S","T","U","V","W","X","Y","Z"}
Lower == {"a","b","c","d","e","f","g","h","i","j","k","l","m",
          "n","o","p","q","r","s","t","u","v","w","x","y","z"}
Digit == {"0","1","2","3","4","5","6","7","8","9"}

\* [A-Za-z0-9_] of TOKEN_PATTERN
TokenChar == Upper \cup Lower \cup Digit \cup {"_"}
\* the complement of [^A-Za-z0-9_-] in sanitize_job_name
SafeChar == TokenChar \cup {"-"}
\* the characters str.strip() removes
Whitespace == {" ", "\t", "\n", "\r", "\f"}

NoneVal == [kind |-> "none"]
StrVal(s) == [kind |-> "str", s |-> s]
\* Python truthiness of a dictionary value: None and "" are false
Truthy(v) == v.kind = "str" /\ v.s # <<>>
\* str(v) for a string value
Str(v) == v.s

EmptyDict == [k \in {} |-> NoneVal]

RECURSIVE Concat(_)
Concat(ss) == IF ss = <<>> THEN <<>> ELSE Head(ss) \o Concat(Tail(ss))

SeqsUpTo(S, n) == UNION {[1..k -> S] : k \in 0..n}


----------------------------------------------------------------------------
(* scripts/app_gen.py: sanitize_job_name                                   *)

\* the fixed default name of sanitize_job_name: 'case_000'
DefaultName == <<"c","a","s","e","_","0","0","0">>

\* end of the maximal run of unsafe characters that starts at i: the `+`
\* of [^A-Za-z0-9_-]+ is greedy
RECURSIVE UnsafeRunEnd(_, _)
UnsafeRunEnd(s, i) ==
    IF i > Len(s) \/ s[i] \in SafeChar THEN i ELSE UnsafeRunEnd(s, i + 1)

\* re.sub(r'[^A-Za-z0-9_-]+', '_', s), scanning from position i
RECURSIVE SubUnsafeRuns(_, _, _)
SubUnsafeRuns(s, i, out) ==
    IF i > Len(s) THEN out
    ELSE IF s[i] \in SafeChar THEN SubUnsafeRuns(s, i + 1, Append(out, s[i]))
    ELSE SubUnsafeRuns(s, UnsafeRunEnd(s, i), Append(out, "_"))

\* a variant that substitutes character by character (pattern without `+`)
sanitize_per_char(nm) ==
    LET out == [i \in 1..Len(nm) |-> IF nm[i] \in SafeChar THEN nm[i] ELSE "_"]
    IN IF out = <<>> THEN DefaultName ELSE out

\* a variant without the `if not safe` fallback
sanitize_no_default(nm) == SubUnsafeRuns(nm, 1, <<>>)

sanitize_job_name(nm) ==
    LET out == SubUnsafeRuns(nm, 1, <<>>)
    IN IF out = <<>> THEN DefaultName ELSE out

----------------------------------------------------------------------------
(* scripts/app_gen.py: determine_job_name                                  *)

DEFAULT_NAME_CANDIDATES ==
    << <<"j","o","b","_","n","a","m","e">>,
       <<"J","O","B","_","N","A","M","E">>,
       <<"J","o","b","N","a","m","e">>,
       <<"c","a","s","e">>,
       <<"C","A","S","E">>,
       <<"C","a","s","e">> >>

\* str.strip(): drop leading, then trailing, whitespace
RECURSIVE LStrip(_)
LStrip(s) ==
    IF s # <<>> /\ Head(s) \in Whitespace THEN LStrip(Tail(s)) ELSE s
RECURSIVE RStrip(_)
RStrip(s) ==
    IF s # <<>> /\ s[Len(s)] \in Whitespace
    THEN RStrip(SubSeq(s, 1, Len(s) - 1)) ELSE s
Strip(s) == RStrip(LStrip(s))

DigitSeq == <<"0","1","2","3","4","5","6","7","8","9">>
\* the decimal digits of a natural number: str(n), format 'd'
RECURSIVE DecimalDigits(_)
DecimalDigits(n) ==
    IF n < 10 THEN <<DigitSeq[n + 1]>>
    ELSE Append(DecimalDigits(n \div 10), DigitSeq[(n % 10) + 1])

\* the minimum field width of '{0:03d}'
PadWidth == 3
RECURSIVE ZeroPad(_, _)
ZeroPad(s, w) == IF Len(s) >= w THEN s ELSE ZeroPad(<<"0">> \o s, w)

\* 'case_{0:03d}'.format(n)
FormatCase(n) == <<"c","a","s","e","_">> \o ZeroPad(DecimalDigits(n), PadWidth)

\* the for loop of determine_job_name from candidate k on
RECURSIVE NameFromCandidate(_, _, _)
NameFromCandidate(params, idx, k) ==
    IF k > Len(DEFAULT_NAME_CANDIDATES) THEN FormatCase(idx + 1)
    ELSE LET key == DEFAULT_NAME_CANDIDATES[k] IN
         IF key \in DOMAIN params /\ Truthy(params[key])
         THEN LET nm == Strip(params[key].s) IN
              IF nm # <<>> THEN sanitize_job_name(nm)
              ELSE NameFromCandidate(params, idx, k + 1)
         ELSE NameFromCandidate(params, idx, k + 1)

\* a variant in which a whitespace-only value ends the search
RECURSIVE NameStopAtBlank(_, _, _)
NameStopAtBlank(params, idx, k) ==
    IF k > Len(DEFAULT_NAME_CANDIDATES) THEN FormatCase(idx + 1)
    ELSE LET key == DEFAULT_NAME_CANDIDATES[k] IN
         IF key \in DOMAIN params /\ Truthy(params[key])
         THEN LET nm == Strip(params[key].s) IN
              IF nm # <<>> THEN sanitize_job_name(nm)
              ELSE FormatCase(idx + 1)
         ELSE NameStopAtBlank(params, idx, k + 1)
determine_job_name_stop_at_blank(params, idx) == NameStopAtBlank(params, idx, 1)

determine_job_name(params, idx) == NameFromCandidate(params, idx, 1)

----------------------------------------------------------------------------
(* scripts/app_gen.py: render_template                                     *)

\* end of the maximal run of token characters that starts at j
RECURSIVE TokenCharsEnd(_, _)
TokenCharsEnd(text, j) ==
    IF j > Len(text) \/ text[j] \notin TokenChar THEN j
    ELSE TokenCharsEnd(text, j + 1)

\* TOKEN_PATTERN.match at position i: the position after the match, 0 if none
TokenMatchEnd(text, i) ==
    IF i + 1 <= Len(text) /\ text[i] = "{" /\ text[i + 1] = "{"
    THEN LET e == TokenCharsEnd(text, i + 2) IN
         IF e > i + 2 /\ e + 1 <= Len(text) /\ text[e] = "}" /\ text[e + 1] = "}"
         THEN e + 2 ELSE 0
    ELSE 0

\* TOKEN_PATTERN.sub(replace, text) from position i on, with the nested
\* replace() callback; missing accumulates missing_keys
RECURSIVE SubTokens(_, _, _, _, _)
SubTokens(text, params, i, out, missing) ==
    IF i > Len(text) THEN [out |-> out, missing |-> missing]
    ELSE LET e == TokenMatchEnd(text, i) IN
         IF e = 0 THEN SubTokens(text, params, i + 1, Append(out, text[i]), missing)
         ELSE LET token == SubSeq(text, i + 2, e - 3) IN
              IF token \notin DOMAIN params \/ params[token] = NoneVal
              THEN SubTokens(text, params, e, out \o SubSeq(text, i, e - 1),
                             Append(missing, token))
              ELSE SubTokens(text, params, e, out \o Str(params[token]), missing)

\* "Remove duplicates while preserving order"
RECURSIVE OrderedUnique(_, _, _)
OrderedUnique(keys, seen, out) ==
    IF keys = <<>> THEN out
    ELSE IF Head(keys) \in seen THEN OrderedUnique(Tail(keys), seen, out)
    ELSE OrderedUnique(Tail(keys), seen \cup {Head(keys)}, Append(out, Head(keys)))

\* a variant whose callback treats a None value as present
render_template_none_ok(text, params) ==
    LET r == SubTokens(text, [k \in DOMAIN params |->
                 IF params[k] = NoneVal THEN StrVal(<<"N","o","n","e">>)
                 ELSE params[k]], 1, <<>>, <<>>) IN
    IF r.missing # <<>>
    THEN [raised |-> TRUE, rendered |-> NoneVal,
          missing |-> OrderedUnique(r.missing, {}, <<>>)]
    ELSE [raised |-> FALSE, rendered |-> StrVal(r.out), missing |-> <<>>]

\* a variant that renders repeatedly until no token is replaced any more
RECURSIVE render_template_rescan(_, _)
render_template_rescan(text, params) ==
    LET r == SubTokens(text, params, 1, <<>>, <<>>) IN
    IF r.missing # <<>>
    THEN [raised |-> TRUE, rendered |-> NoneVal,
          missing |-> OrderedUnique(r.missing, {}, <<>>)]
    ELSE IF r.out = text
         THEN [raised |-> FALSE, rendered |-> StrVal(r.out), missing |-> <<>>]
         ELSE render_template_rescan(r.out, params)

\* the result of render_template: raised with ordered_missing, or rendered
render_template(text, params) ==
    LET r == SubTokens(text, params, 1, <<>>, <<>>) IN
    IF r.missing # <<>>
    THEN [raised |-> TRUE, rendered |-> NoneVal,
          missing |-> OrderedUnique(r.missing, {}, <<>>)]
    ELSE [raised |-> FALSE, rendered |-> StrVal(r.out), missing |-> <<>>]

----------------------------------------------------------------------------
(* Values the variables of the other operations keep while one operation   *)
(* is studied                                                              *)

NoFiles == [f \in {} |-> <<>>]

SweepIdle ==
    /\ template_text = <<>> /\ parameters = EmptyDict /\ rendered = NoneVal
    /\ missing_keys = <<>> /\ name = <<>> /\ safe = <<>> /\ index = 0
    /\ job_name = <<>> /\ parameter_sets = <<>> /\ jobs_dir_exists = FALSE
    /\ generated_paths = <<>> /\ exit_code = NoneVal
ComboIdle ==
    /\ target_definitions = <<>> /\ combinations = <<>>
    /\ selected_combinations = <<>> /\ template_content = <<>>
    /\ search_mode = "exact" /\ position = 0 /\ counts = <<>>
    /\ successful = 0 /\ skipped = <<>> /\ written = <<>>

----------------------------------------------------------------------------
(* sanitize_job_name applied to every name over NameAlphabet               *)

MaxNameLen == 3
NameAlphabet == {"a", "Z", "7", "_", "-", " ", "!"}

InitSanitize ==
    /\ pc = "call"
    /\ name \in SeqsUpTo(NameAlphabet, MaxNameLen)
    /\ template_text = <<>> /\ parameters = EmptyDict /\ rendered = NoneVal
    /\ missing_keys = <<>> /\ safe = <<>> /\ index = 0
    /\ job_name = <<>> /\ parameter_sets = <<>> /\ jobs_dir_exists = FALSE
    /\ generated_paths = <<>> /\ exit_code = NoneVal
    /\ files = NoFiles
    /\ ComboIdle

SanitizeJobName ==
    /\ pc = "call"
    /\ safe' = sanitize_job_name(name)
    /\ pc' = "done"
    /\ UNCHANGED <<template_text, parameters, rendered, missing_keys, name,
                   index, job_name, parameter_sets, jobs_dir_exists,
                   generated_paths, exit_code, files, comboVars>>

NextSanitize == SanitizeJobName
SpecSanitize == InitSanitize /\ [][NextSanitize]_vars

\* number of output characters produced by the first i input characters
\* when every maximal run of unsafe characters yields one character
RunStart(s, i) == s[i] \notin SafeChar /\ (i = 1 \/ s[i - 1] \in SafeChar)
OutPos(s, i) ==
    Cardinality({k \in 1..i : s[k] \in SafeChar \/ RunStart(s, k)})

\* C7 as stated: every unsafe character is mapped to an underscore of its
\* own, so that the result has the length of the input, and every safe
\* character is unchanged.
C7_CharByChar ==
    (pc = "done" /\ name # <<>>) =>
        /\ Len(safe) = Len(name)
        /\ \A i \in 1..Len(name) :
              safe[i] = IF name[i] \in SafeChar THEN name[i] ELSE "_"

\* C7 amended: every maximal run of consecutive unsafe characters is mapped
\* to one underscore, so that the result is never longer than the input,
\* and every safe character is unchanged and keeps its order.
C7_RunsToOneUnderscore ==
    (pc = "done" /\ name # <<>>) =>
        /\ Len(safe) = OutPos(name, Len(name))
        /\ Len(safe) <= Len(name)
        /\ \A i \in 1..Len(name) :
              safe[OutPos(name, i)] =
                  IF name[i] \in SafeChar THEN name[i] ELSE "_"

C7_Witness ==
    /\ pc = "done" /\ Len(name) = 3
    /\ name[1] \in SafeChar /\ name[2] \notin SafeChar /\ name[3] \notin SafeChar
    /\ safe = <<name[1], "_">>

AllUnsafe(s) == s # <<>> /\ \A i \in 1..Len(s) : s[i] \notin SafeChar

\* C8 as stated: a non-empty name made only of unsafe characters yields the
\* default name, and no name yields the empty string.
C8_AllUnsafeGivesDefault ==
    pc = "done" =>
        /\ AllUnsafe(name) => safe = DefaultName
        /\ safe # <<>>

\* C8 amended: a non-empty name made only of unsafe characters yields the
\* single underscore; the default name is the result for the empty name;
\* no name yields the empty string.
C8_AllUnsafeGivesUnderscore ==
    pc = "done" =>
        /\ AllUnsafe(name) => safe = <<"_">>
        /\ name = <<>> => safe = DefaultName
        /\ safe # <<>>

C8_Witness ==
    pc = "done" /\ AllUnsafe(name) /\ Len(name) = 2 /\ name[1] # name[2]
    /\ safe = <<"_">>

----------------------------------------------------------------------------
(* determine_job_name applied to rows holding up to MaxCols of the         *)
(* recognised columns                                                      *)

MaxCols == 2
ColumnValues ==
    {NoneVal, StrVal(<<>>), StrVal(<<" ">>), StrVal(<<"\t", " ">>),
     StrVal(<<"a">>), StrVal(<<" ", "Z", " ">>), StrVal(<<"a", " ", "!">>),
     StrVal(<<"!", "!">>)}
IndexChoices == {0, 1, 9, 99, 999}
CandidateKeys == {DEFAULT_NAME_CANDIDATES[k] : k \in 1..Len(DEFAULT_NAME_CANDIDATES)}

InitJobName ==
    /\ pc = "call"
    /\ \E keys \in SUBSET CandidateKeys :
          /\ Cardinality(keys) <= MaxCols
          /\ parameters \in [keys -> ColumnValues]
    /\ index \in IndexChoices
    /\ template_text = <<>> /\ rendered = NoneVal
    /\ missing_keys = <<>> /\ name = <<>> /\ safe = <<>>
    /\ job_name = <<>> /\ parameter_sets = <<>> /\ jobs_dir_exists = FALSE
    /\ generated_paths = <<>> /\ exit_code = NoneVal
    /\ files = NoFiles
    /\ ComboIdle

DetermineJobName ==
    /\ pc = "call"
    /\ job_name' = determine_job_name(parameters, index)
    /\ pc' = "done"
    /\ UNCHANGED <<template_text, parameters, rendered, missing_keys, name,
                   safe, index, parameter_sets, jobs_dir_exists,
                   generated_paths, exit_code, files, comboVars>>

NextJobName == DetermineJobName
SpecJobName == InitJobName /\ [][NextJobName]_vars

SetMin(S) == CHOOSE x \in S : \A y \in S : x <= y
SetMax(S) == CHOOSE x \in S : \A y \in S : x >= y

\* s without its leading and trailing whitespace
Trimmed(s) ==
    LET keep == {i \in 1..Len(s) : s[i] \notin Whitespace}
    IN IF keep = {} THEN <<>> ELSE SubSeq(s, SetMin(keep), SetMax(keep))

\* the candidates whose column holds something other than whitespace
Qualifying(params) ==
    {k \in 1..Len(DEFAULT_NAME_CANDIDATES) :
        /\ DEFAULT_NAME_CANDIDATES[k] \in DOMAIN params
        /\ params[DEFAULT_NAME_CANDIDATES[k]].kind = "str"
        /\ Trimmed(params[DEFAULT_NAME_CANDIDATES[k]].s) # <<>>}

\* the number a digit string denotes
RECURSIVE DigitsValue(_)
DigitsValue(d) ==
    IF d = <<>> THEN 0
    ELSE 10 * DigitsValue(SubSeq(d, 1, Len(d) - 1))
         + (CHOOSE v \in 0..9 : DigitSeq[v + 1] = d[Len(d)])

\* C6: the result is the sanitized, trimmed value of the first column, in
\* the order job_name, JOB_NAME, JobName, case, CASE, Case, whose value is
\* not empty after trimming; without one it is 'case_' followed by index+1
\* in decimal, zero-padded to three digits.
C6_FirstQualifyingColumn ==
    pc = "done" =>
        LET q == Qualifying(parameters) IN
        IF q # {}
        THEN job_name = sanitize_job_name(
                 Trimmed(parameters[DEFAULT_NAME_CANDIDATES[SetMin(q)]].s))
        ELSE /\ Len(job_name) >= 5 + PadWidth
             /\ SubSeq(job_name, 1, 5) = <<"c","a","s","e","_">>
             /\ LET d == SubSeq(job_name, 6, Len(job_name)) IN
                /\ \A i \in 1..Len(d) : d[i] \in Digit
                /\ DigitsValue(d) = index + 1
                /\ Len(d) > PadWidth => d[1] # "0"

\* a whitespace-only first column, a qualifying later one
C6_Witness ==
    /\ pc = "done"
    /\ \E k1, k2 \in 1..Len(DEFAULT_NAME_CANDIDATES) :
          /\ k1 < k2
          /\ DOMAIN parameters = {DEFAULT_NAME_CANDIDATES[k1], DEFAULT_NAME_CANDIDATES[k2]}
          /\ parameters[DEFAULT_NAME_CANDIDATES[k1]] = StrVal(<<"\t", " ">>)
          /\ parameters[DEFAULT_NAME_CANDIDATES[k2]] = StrVal(<<" ", "Z", " ">>)
    /\ job_name = <<"Z">>

----------------------------------------------------------------------------
(* render_template applied to templates assembled from up to MaxPieces     *)
(* pieces and to mappings of the tokens A and B                            *)

MaxPieces == 3
KeyA == <<"A">>
KeyB == <<"B">>
TokA == <<"{", "{", "A", "}", "}">>
TokB == <<"{", "{", "B", "}", "}">>
Pieces == {<<"{">>, <<"}">>, <<"x">>, TokA, TokB, <<"{", "{", "A">>,
           <<"}", "}">>}
\* Absent stands for a key the mapping does not hold
Absent == [kind |-> "absent"]
ChoicesA == {Absent, NoneVal, StrVal(<<>>), StrVal(<<"1">>), StrVal(TokB)}
ChoicesB == {Absent, NoneVal, StrVal(<<"2">>)}
Mapping(a, b) ==
    [k \in (IF a = Absent THEN {} ELSE {KeyA})
           \cup (IF b = Absent THEN {} ELSE {KeyB})
       |-> IF k = KeyA THEN a ELSE b]

InitRender ==
    /\ pc = "call"
    /\ \E ps \in SeqsUpTo(Pieces, MaxPieces) : template_text = Concat(ps)
    /\ \E a \in ChoicesA, b \in ChoicesB : parameters = Mapping(a, b)
    /\ rendered = NoneVal /\ missing_keys = <<>>
    /\ name = <<>> /\ safe = <<>> /\ index = 0
    /\ job_name = <<>> /\ parameter_sets = <<>> /\ jobs_dir_exists = FALSE
    /\ generated_paths = <<>> /\ exit_code = NoneVal
    /\ files = NoFiles
    /\ ComboIdle

\* one call of render_template: it returns the text or raises KeyError
RenderTemplate ==
    /\ pc = "call"
    /\ LET r == render_template(template_text, parameters) IN
       /\ pc' = IF r.raised THEN "raised" ELSE "returned"
       /\ rendered' = r.rendered
       /\ missing_keys' = r.missing
    /\ UNCHANGED <<template_text, parameters, name, safe, index, job_name,
                   parameter_sets, jobs_dir_exists, generated_paths,
                   exit_code, files, comboVars>>

NextRender == RenderTemplate
SpecRender == InitRender /\ [][NextRender]_vars

\* the occurrences <<first, last>> of {{TOKEN}} in text, TOKEN a non-empty
\* string of token characters
Occurrences(text) ==
    {o \in (1..Len(text)) \X (1..Len(text)) :
        /\ o[2] >= o[1] + 4
        /\ text[o[1]] = "{" /\ text[o[1] + 1] = "{"
        /\ text[o[2] - 1] = "}" /\ text[o[2]] = "}"
        /\ \A k \in (o[1] + 2)..(o[2] - 2) : text[k] \in TokenChar}
TokenOf(text, o) == SubSeq(text, o[1] + 2, o[2] - 2)
Unresolved(text, params) ==
    {o \in Occurrences(text) :
        \/ TokenOf(text, o) \notin DOMAIN params
        \/ params[TokenOf(text, o)] = NoneVal}
FirstOccurrence(text, params, token) ==
    SetMin({o[1] : o \in {u \in Unresolved(text, params) : TokenOf(text, u) = token}})

\* C4: render_template raises exactly when some occurrence of a token has
\* no entry or a None entry in the mapping; it then names every missing
\* token once, in the order of first occurrence, and returns no text.
C4_RaisesOnMissing ==
    pc # "call" =>
        LET un == Unresolved(template_text, parameters) IN
        /\ pc = "raised" <=> un # {}
        /\ pc = "raised" =>
              /\ rendered = NoneVal
              /\ {missing_keys[i] : i \in 1..Len(missing_keys)}
                     = {TokenOf(template_text, o) : o \in un}
              /\ \A i, j \in 1..Len(missing_keys) :
                     i < j => FirstOccurrence(template_text, parameters, missing_keys[i])
                              < FirstOccurrence(template_text, parameters, missing_keys[j])

\* three unresolved occurrences of two tokens, one of them mapped to None
C4_Witness ==
    /\ pc = "raised"
    /\ Cardinality(Unresolved(template_text, parameters)) = 3
    /\ missing_keys = <<KeyB, KeyA>>
    /\ KeyA \in DOMAIN parameters

\* total length of the values of the tokens at the occurrences in S
RECURSIVE ValueLenSum(_, _, _)
ValueLenSum(text, params, S) ==
    IF S = {} THEN 0
    ELSE LET o == CHOOSE u \in S : TRUE IN
         Len(params[TokenOf(text, o)].s) + ValueLenSum(text, params, S \ {o})

Inside(text, i) == \E o \in Occurrences(text) : o[1] <= i /\ i <= o[2]
\* length of the output produced by the characters before position i
Offset(text, params, i) ==
    Cardinality({k \in 1..(i - 1) : ~Inside(text, k)})
    + ValueLenSum(text, params, {o \in Occurrences(text) : o[2] < i})

\* C5: when every token of the template has a value other than None, the
\* call returns; every occurrence is replaced by the token's value, every
\* character outside the occurrences is kept, and nothing else is output
\* (a value that holds a token is copied, not rendered again).
C5_ReplacesEveryOccurrence ==
    (pc # "call" /\ Unresolved(template_text, parameters) = {}) =>
        /\ pc = "returned"
        /\ rendered.kind = "str"
        /\ Len(rendered.s) = Offset(template_text, parameters, Len(template_text) + 1)
        /\ \A i \in 1..Len(template_text) :
              ~Inside(template_text, i) =>
                  rendered.s[Offset(template_text, parameters, i) + 1] = template_text[i]
        /\ \A o \in Occurrences(template_text) :
              LET v == parameters[TokenOf(template_text, o)].s
                  at == Offset(template_text, parameters, o[1])
              IN SubSeq(rendered.s, at + 1, at + Len(v)) = v

\* {{A}} twice around other text, A mapped to a value that holds a token
C5_Witness ==
    /\ pc = "returned"
    /\ template_text = TokA \o <<"x">> \o TokA
    /\ parameters[KeyA] = StrVal(TokB)
    /\ rendered = StrVal(TokB \o <<"x">> \o TokB)

----------------------------------------------------------------------------
(* scripts/app_gen.py: main, one run of the command line over a template   *)
(* file and a parameter table of up to MaxRows rows                        *)

MaxRows == 3
KeyX == <<"X">>
KeyJobName == DEFAULT_NAME_CANDIDATES[1]
Extension == <<".", "i", "n", "p">>
\* '{0}.inp'.format(job_name) inside the output directory
JobFile(jn) == jn \o Extension

\* csv.DictReader gives every row the columns of the header row; a cell the
\* row lacks is None
Headers == {{KeyJobName, KeyX}, {KeyX}, {KeyJobName}}
CellChoices(column) ==
    IF column = KeyX THEN {NoneVal, StrVal(<<"1">>), StrVal(<<"2">>)}
    ELSE {NoneVal, StrVal(<<"A", "_">>), StrVal(<<"A", "!">>),
          StrVal(FormatCase(2))}
RowsOf(header) ==
    {row \in [header -> UNION {CellChoices(c) : c \in header}] :
        \A c \in header : row[c] \in CellChoices(c)}
TemplateChoices ==
    {<<"x">>, <<"v", "=", "{", "{", "X", "}", "}">>}

InitMain ==
    /\ pc = "start"
    /\ template_text \in TemplateChoices
    /\ \E header \in Headers : parameter_sets \in SeqsUpTo(RowsOf(header), MaxRows)
    /\ jobs_dir_exists \in BOOLEAN
    /\ files = NoFiles
    /\ index = 0 /\ generated_paths = <<>> /\ exit_code = NoneVal
    /\ parameters = EmptyDict /\ rendered = NoneVal /\ missing_keys = <<>>
    /\ name = <<>> /\ safe = <<>> /\ job_name = <<>>
    /\ ComboIdle

\* load_template and read_parameter_table: either file may be unreadable,
\* and a table without rows raises ValueError; both end the run with 1
LoadInputs ==
    /\ pc = "start"
    /\ \E readable \in BOOLEAN :
          IF readable /\ parameter_sets # <<>>
          THEN pc' = "loop" /\ exit_code' = exit_code
          ELSE pc' = "done" /\ exit_code' = 1
    /\ UNCHANGED <<template_text, parameters, rendered, missing_keys, name,
                   safe, index, job_name, parameter_sets, jobs_dir_exists,
                   generated_paths, files, comboVars>>

\* a variant of the loop body that logs a KeyError and goes on to the next row
ProcessRowSkipOnError ==
    /\ pc = "loop"
    /\ index < Len(parameter_sets)
    /\ LET row == parameter_sets[index + 1]
           jn == determine_job_name(row, index)
           r == render_template(template_text, row)
       IN /\ parameters' = row
          /\ job_name' = jn
          /\ rendered' = r.rendered
          /\ missing_keys' = r.missing
          /\ index' = index + 1
          /\ pc' = pc /\ exit_code' = exit_code
          /\ IF r.raised
             THEN UNCHANGED <<jobs_dir_exists, files, generated_paths>>
             ELSE /\ jobs_dir_exists' = TRUE
                  /\ files' = [f \in DOMAIN files \cup {JobFile(jn)} |->
                                  IF f = JobFile(jn) THEN r.rendered.s ELSE files[f]]
                  /\ generated_paths' = Append(generated_paths, JobFile(jn))
    /\ UNCHANGED <<template_text, name, safe, parameter_sets, comboVars>>

\* one iteration of the for loop of main: determine_job_name,
\* render_template, write_job_file (ensure_directory, open, write); an
\* exception (KeyError, or an OSError of makedirs or open) ends the run
\* with 1
ProcessRow ==
    /\ pc = "loop"
    /\ index < Len(parameter_sets)
    /\ LET row == parameter_sets[index + 1]
           jn == determine_job_name(row, index)
           r == render_template(template_text, row)
       IN /\ parameters' = row
          /\ job_name' = jn
          /\ rendered' = r.rendered
          /\ missing_keys' = r.missing
          /\ IF r.raised
             THEN /\ pc' = "done" /\ exit_code' = 1
                  /\ UNCHANGED <<index, jobs_dir_exists, files, generated_paths>>
             ELSE \E failure \in {"none", "makedirs", "open"} :
                  /\ failure = "makedirs" => ~jobs_dir_exists
                  /\ IF failure = "none"
                     THEN /\ jobs_dir_exists' = TRUE
                          /\ files' = [f \in DOMAIN files \cup {JobFile(jn)} |->
                                          IF f = JobFile(jn) THEN r.rendered.s
                                          ELSE files[f]]
                          /\ generated_paths' = Append(generated_paths, JobFile(jn))
                          /\ index' = index + 1
                          /\ pc' = pc /\ exit_code' = exit_code
                     ELSE /\ jobs_dir_exists' = (jobs_dir_exists \/ failure = "open")
                          /\ pc' = "done" /\ exit_code' = 1
                          /\ UNCHANGED <<index, files, generated_paths>>
    /\ UNCHANGED <<template_text, name, safe, parameter_sets, comboVars>>

\* the loop is exhausted: 'Successfully generated ...', return 0
Finish ==
    /\ pc = "loop"
    /\ index = Len(parameter_sets)
    /\ pc' = "done"
    /\ exit_code' = 0
    /\ UNCHANGED <<template_text, parameters, rendered, missing_keys, name,
                   safe, index, job_name, parameter_sets, jobs_dir_exists,
                   generated_paths, files, comboVars>>

NextMain == LoadInputs \/ ProcessRow \/ Finish
SpecMain == InitMain /\ [][NextMain]_vars

\* the rows (1-based) whose rendering leaves a placeholder unresolved
BadRows ==
    {i \in 1..Len(parameter_sets) :
        Unresolved(template_text, parameter_sets[i]) # {}}
\* the file written for row i
RowFile(i) == JobFile(determine_job_name(parameter_sets[i], i - 1))

\* C1: the rows are written in table order; nothing is written for the
\* first row with an unresolved placeholder or for any later row; a run
\* that reaches that row ends there with exit code 1, the files of the
\* earlier rows still in place; the exit code is 0 only when every row was
\* rendered and written.
C1_FirstBadRowAborts ==
    /\ \A i \in 1..Len(generated_paths) :
          generated_paths[i] = RowFile(i) /\ generated_paths[i] \in DOMAIN files
    /\ BadRows # {} => Len(generated_paths) < SetMin(BadRows)
    /\ pc = "done" =>
          /\ exit_code \in {0, 1}
          /\ BadRows # {} => exit_code = 1
          /\ missing_keys # <<>> =>
                /\ BadRows # {}
                /\ Len(generated_paths) = SetMin(BadRows) - 1
                /\ index = SetMin(BadRows) - 1
          /\ exit_code = 0 =>
                /\ BadRows = {}
                /\ Len(generated_paths) = Len(parameter_sets)

\* the run wrote two rows and was ended by the third, which lacks a value
C1_Witness ==
    /\ pc = "done" /\ exit_code = 1
    /\ Len(parameter_sets) = 3 /\ BadRows = {3}
    /\ missing_keys = <<KeyX>>
    /\ generated_paths = <<RowFile(1), RowFile(2)>>
    /\ RowFile(1) # RowFile(2)
    /\ DOMAIN files = {RowFile(1), RowFile(2)}

\* C9: after a run that exits 0 the output directory exists and holds one
\* file per row, as many files as rows, each with the text rendered for
\* its own row.
C9_OneFilePerRow ==
    (pc = "done" /\ exit_code = 0) =>
        /\ jobs_dir_exists
        /\ Cardinality(DOMAIN files) = Len(parameter_sets)
        /\ \A i \in 1..Len(parameter_sets) :
              /\ RowFile(i) \in DOMAIN files
              /\ StrVal(files[RowFile(i)])
                     = render_template(template_text, parameter_sets[i]).rendered

----------------------------------------------------------------------------
(* scripts/app1-input.py: build_combinations                               *)

\* itertools.product(*lists): the rightmost list advances fastest
RECURSIVE Product(_)
Product(lists) ==
    IF lists = <<>> THEN << <<>> >>
    ELSE LET rest == Product(Tail(lists)) IN
         Concat([h \in 1..Len(Head(lists)) |->
                    [r \in 1..Len(rest) |-> <<Head(lists)[h]>> \o rest[r]]])

\* a product in which the leftmost list advances fastest
RECURSIVE ProductFirstFastest(_)
ProductFirstFastest(lists) ==
    IF lists = <<>> THEN << <<>> >>
    ELSE LET rest == ProductFirstFastest(Tail(lists)) IN
         Concat([r \in 1..Len(rest) |->
                    [h \in 1..Len(Head(lists)) |-> <<Head(lists)[h]>> \o rest[r]]])

\* "-".join(str(item["index"]) for item in product)
RECURSIVE JoinIndices(_)
JoinIndices(product) ==
    IF product = <<>> THEN <<>>
    ELSE IF Len(product) = 1 THEN DecimalDigits(product[1].index)
    ELSE DecimalDigits(product[1].index) \o <<"-">> \o JoinIndices(Tail(product))

Combination(tds, product) ==
    [label |-> JoinIndices(product),
     pairs |-> [idx \in 1..Len(product) |->
                   [target |-> tds[idx], replacement |-> product[idx]]]]

build_combinations_first_fastest(tds) ==
    IF tds = <<>> THEN <<>>
    ELSE LET products ==
                 ProductFirstFastest([i \in 1..Len(tds) |-> tds[i].replacements])
         IN [p \in 1..Len(products) |-> Combination(tds, products[p])]

build_combinations(tds) ==
    IF tds = <<>> THEN <<>>
    ELSE LET products == Product([i \in 1..Len(tds) |-> tds[i].replacements])
         IN [p \in 1..Len(products) |-> Combination(tds, products[p])]

----------------------------------------------------------------------------
(* build_combinations applied to up to MaxTargets targets whose candidates *)
(* carry the indices of a subset of CandidateIndexPool                     *)

MaxTargets == 3
CandidateIndexPool == {1, 2, 11}

RECURSIVE SortedSeq(_)
SortedSeq(S) ==
    IF S = {} THEN <<>> ELSE <<SetMin(S)>> \o SortedSeq(S \ {SetMin(S)})

\* the candidates collect_targets_and_replacements keeps, in index order
CandidatesOf(indices, txt) ==
    LET order == SortedSeq(indices)
    IN [k \in 1..Len(order) |-> [index |-> order[k], text |-> txt]]

InitCombos ==
    /\ pc = "call"
    /\ \E n \in 0..MaxTargets :
       \E choice \in [1..n -> SUBSET CandidateIndexPool] :
          target_definitions =
              [t \in 1..n |-> [target_index |-> t, text |-> <<"t">>,
                               replacements |-> CandidatesOf(choice[t], <<"r">>)]]
    /\ combinations = <<>>
    /\ selected_combinations = <<>> /\ template_content = <<>>
    /\ search_mode = "exact" /\ position = 0 /\ counts = <<>>
    /\ successful = 0 /\ skipped = <<>> /\ written = <<>>
    /\ files = NoFiles
    /\ SweepIdle

BuildCombinations ==
    /\ pc = "call"
    /\ combinations' = build_combinations(target_definitions)
    /\ pc' = "done"
    /\ UNCHANGED <<target_definitions, selected_combinations, template_content,
                   search_mode, position, counts, successful, skipped, written,
                   files, sweepVars>>

NextCombos == BuildCombinations
SpecCombos == InitCombos /\ [][NextCombos]_vars

RECURSIVE CandidateCountProduct(_)
CandidateCountProduct(tds) ==
    IF tds = <<>> THEN 1
    ELSE Len(Head(tds).replacements) * CandidateCountProduct(Tail(tds))

LexLess(a, b) ==
    \E k \in 1..Len(a) : a[k] < b[k] /\ \A j \in 1..(k - 1) : a[j] = b[j]

IndexSeq(combo) == [i \in 1..Len(combo.pairs) |-> combo.pairs[i].replacement.index]

\* the numbers a label denotes: its digit strings between the separators
RECURSIVE LabelNumbers(_, _)
LabelNumbers(label, digits) ==
    IF label = <<>> THEN <<DigitsValue(digits)>>
    ELSE IF Head(label) = "-"
         THEN <<DigitsValue(digits)>> \o LabelNumbers(Tail(label), <<>>)
         ELSE LabelNumbers(Tail(label), Append(digits, Head(label)))

\* C3: N targets with c1..cN candidates give c1*...*cN combinations (none
\* without targets or with a target without candidates), one per choice of
\* a candidate for every target; the label is the candidate indices joined
\* by '-' in target order, no two labels are equal, and the combinations
\* come in lexicographic order of their index sequences.
C3_CartesianProduct ==
    pc = "done" =>
        /\ Len(combinations) = IF target_definitions = <<>> THEN 0
                               ELSE CandidateCountProduct(target_definitions)
        /\ \A p \in 1..Len(combinations) :
              /\ Len(combinations[p].pairs) = Len(target_definitions)
              /\ \A i \in 1..Len(target_definitions) :
                    /\ combinations[p].pairs[i].target = target_definitions[i]
                    /\ \E k \in 1..Len(target_definitions[i].replacements) :
                          combinations[p].pairs[i].replacement
                              = target_definitions[i].replacements[k]
              /\ LabelNumbers(combinations[p].label, <<>>) = IndexSeq(combinations[p])
              /\ \A c \in 1..Len(combinations[p].label) :
                    combinations[p].label[c] \in Digit \cup {"-"}
        /\ \A p, q \in 1..Len(combinations) :
              p < q => /\ combinations[p].label # combinations[q].label
                       /\ LexLess(IndexSeq(combinations[p]), IndexSeq(combinations[q]))

\* three targets with 2, 3 and 2 candidates
C3_Witness ==
    /\ pc = "done"
    /\ Len(target_definitions) = 3
    /\ Len(combinations) = 12
    /\ combinations[1].label = <<"1", "-", "1", "-", "2">>
    /\ combinations[12].label = <<"1", "1", "-", "1", "1", "-", "1", "1">>

\* a target without candidates among targets with candidates
C3_WitnessEmpty ==
    /\ pc = "done"
    /\ Len(target_definitions) = 3
    /\ Len(target_definitions[2].replacements) = 0
    /\ Len(target_definitions[1].replacements) = 3
    /\ combinations = <<>>

----------------------------------------------------------------------------
(* scripts/app1-input.py: apply_replacements                               *)

UpperSeq == <<"A","B","C","D","E","F","G","H","I","J","K","L","M",
              "N","O","P","Q","R","S","T","U","V","W","X","Y","Z">>
LowerSeq == <<"a","b","c","d","e","f","g","h","i","j","k","l","m",
              "n","o","p","q","r","s","t","u","v","w","x","y","z">>
\* the case folding of re.IGNORECASE on ASCII letters
ToLower(c) ==
    IF c \in Upper THEN LowerSeq[CHOOSE k \in 1..26 : UpperSeq[k] = c] ELSE c

\* whether target matches text at position i, literally or ignoring case
MatchesAt(text, i, target, fold) ==
    /\ i + Len(target) - 1 <= Len(text)
    /\ \A k \in 1..Len(target) :
          IF fold THEN ToLower(text[i + k - 1]) = ToLower(target[k])
          ELSE text[i + k - 1] = target[k]

\* the left-to-right scan shared by str.count/str.replace and by
\* pattern.subn: every match found is replaced and counted, and the scan
\* resumes after the match
RECURSIVE ReplaceScan(_, _, _, _, _, _, _)
ReplaceScan(text, i, target, repl, fold, out, n) ==
    IF i > Len(text) THEN [text |-> out, count |-> n]
    ELSE IF MatchesAt(text, i, target, fold)
         THEN ReplaceScan(text, i + Len(target), target, repl, fold, out \o repl, n + 1)
         ELSE ReplaceScan(text, i + 1, target, repl, fold, Append(out, text[i]), n)

\* the escapes a replacement template of re turns into one character
\* (BEL, BS and VT stand for the characters \x07, \x08 and \x0b)
TemplateEscapes == {"a", "b", "f", "n", "r", "t", "v", "\\"}
EscapeChar(c) ==
    CASE c = "a" -> "BEL" [] c = "b" -> "BS" [] c = "f" -> "\f"
      [] c = "n" -> "\n" [] c = "r" -> "\r" [] c = "t" -> "\t"
      [] c = "v" -> "VT" [] c = "\\" -> "\\"

\* pattern.subn(repl, ...) reads repl as a template: a backslash starts an
\* escape.  A known escape yields its character, a backslash before any
\* other ASCII letter or at the end raises re.error, a backslash before
\* another character is kept with it.  Group references (\g<..>, \1) are
\* outside the texts the model draws.
RECURSIVE ExpandTemplate(_, _, _)
ExpandTemplate(repl, i, out) ==
    IF i > Len(repl) THEN [raised |-> FALSE, text |-> out]
    ELSE IF repl[i] # "\\" THEN ExpandTemplate(repl, i + 1, Append(out, repl[i]))
    ELSE IF i = Len(repl) THEN [raised |-> TRUE, text |-> <<>>]
    ELSE CASE repl[i + 1] \in TemplateEscapes ->
                  ExpandTemplate(repl, i + 2, Append(out, EscapeChar(repl[i + 1])))
           [] repl[i + 1] \in (Upper \cup Lower) \ (TemplateEscapes \cup {"g"}) ->
                  [raised |-> TRUE, text |-> <<>>]
           [] repl[i + 1] \notin Upper \cup Lower \cup Digit ->
                  ExpandTemplate(repl, i + 2, out \o <<repl[i], repl[i + 1]>>)

\* the body of the for loop of apply_replacements for one pair
ApplyPair(text, pair, mode) ==
    IF mode = "exact"
    THEN LET r == ReplaceScan(text, 1, pair.target.text, pair.replacement.text,
                              FALSE, <<>>, 0)
         IN [raised |-> FALSE, text |-> r.text, count |-> r.count]
    ELSE LET t == ExpandTemplate(pair.replacement.text, 1, <<>>) IN
         IF t.raised THEN [raised |-> TRUE, text |-> text, count |-> 0]
         ELSE LET r == ReplaceScan(text, 1, pair.target.text, t.text, TRUE, <<>>, 0)
              IN [raised |-> FALSE, text |-> r.text, count |-> r.count]

\* the for loop from pair k on; base is the text the function was given
RECURSIVE ApplyFrom(_, _, _, _, _, _)
ApplyFrom(base, text, pairs, k, mode, cnts) ==
    IF k > Len(pairs) THEN [raised |-> FALSE, text |-> text, counts |-> cnts]
    ELSE LET r == ApplyPair(text, pairs[k], mode) IN
         IF r.raised THEN [raised |-> TRUE, text |-> text, counts |-> cnts]
         ELSE ApplyFrom(base, r.text, pairs, k + 1, mode, Append(cnts, r.count))

\* a variant that counts every target in the text the function was given
RECURSIVE ApplyCountingInBase(_, _, _, _, _, _)
ApplyCountingInBase(base, text, pairs, k, mode, cnts) ==
    IF k > Len(pairs) THEN [raised |-> FALSE, text |-> text, counts |-> cnts]
    ELSE LET r == ApplyPair(text, pairs[k], mode)
             c == ApplyPair(base, pairs[k], mode) IN
         IF r.raised THEN [raised |-> TRUE, text |-> text, counts |-> cnts]
         ELSE ApplyCountingInBase(base, r.text, pairs, k + 1, mode,
                                  Append(cnts, c.count))
apply_replacements_count_in_base(base_text, combo_pairs, mode) ==
    ApplyCountingInBase(base_text, base_text, combo_pairs, 1, mode, <<>>)

\* (updated_text, counts), or raised when re rejects a replacement text
apply_replacements(base_text, combo_pairs, mode) ==
    ApplyFrom(base_text, base_text, combo_pairs, 1, mode, <<>>)

----------------------------------------------------------------------------
(* scripts/app1-input.py: generate_files over the combinations selected    *)
(* among those of one or two targets                                       *)

MaxTextLen == 3
TextAlphabet == {"x", "y", "X"}
TargetTexts == {<<"x">>, <<"y">>, <<"x", "x">>}
\* the candidate texts of one target, candidate 1 first
CandidateTexts ==
    {<<<<"y">>>>, <<<<"X">>, <<"y">>>>, <<<<"\\", "n">>, <<"\\">>>>}
TargetCounts == {1, 2}
\* Path(st.session_state.template_name).stem
base_name == <<"m">>
\* f"{base_name}_({combo['label']}).inp"
OutputName(label) == base_name \o <<"_", "(">> \o label \o <<")">> \o Extension

\* the combinations whose checkbox is ticked, in the order of the table
RECURSIVE Ticked(_, _)
Ticked(combos, mask) ==
    IF combos = <<>> THEN <<>>
    ELSE (IF mask[1] THEN <<Head(combos)>> ELSE <<>>)
         \o Ticked(Tail(combos), Tail(mask))

InitGenerate ==
    /\ pc = "loop"
    /\ template_content \in SeqsUpTo(TextAlphabet, MaxTextLen) \ {<<>>}
    /\ search_mode \in {"exact", "partial"}
    /\ \E n \in TargetCounts :
       \E txt \in [1..n -> TargetTexts], cand \in [1..n -> CandidateTexts] :
          target_definitions =
              [t \in 1..n |->
                  [target_index |-> t, text |-> txt[t],
                   replacements |-> [k \in 1..Len(cand[t]) |->
                                        [index |-> k, text |-> cand[t][k]]]]]
    /\ combinations = build_combinations(target_definitions)
    /\ \E mask \in [1..Len(combinations) -> BOOLEAN] :
          /\ \E p \in 1..Len(combinations) : mask[p]
          /\ selected_combinations = Ticked(combinations, mask)
    /\ position = 0 /\ counts = <<>>
    /\ successful = 0 /\ skipped = <<>> /\ written = <<>>
    /\ files = NoFiles
    /\ SweepIdle

\* one iteration of the for loop of generate_files; an re.error of
\* apply_replacements leaves the function
GenerateStep ==
    /\ pc = "loop"
    /\ position < Len(selected_combinations)
    /\ LET combo == selected_combinations[position + 1]
           r == apply_replacements(template_content, combo.pairs, search_mode)
       IN IF r.raised
          THEN /\ pc' = "raised"
               /\ UNCHANGED <<position, counts, successful, skipped, written, files>>
          ELSE /\ pc' = pc
               /\ position' = position + 1
               /\ counts' = r.counts
               /\ IF \E k \in 1..Len(r.counts) : r.counts[k] = 0
                  THEN /\ skipped' = Append(skipped, combo.label)
                       /\ UNCHANGED <<successful, written, files>>
                  ELSE /\ files' = [f \in DOMAIN files \cup {OutputName(combo.label)} |->
                                       IF f = OutputName(combo.label) THEN r.text
                                       ELSE files[f]]
                       /\ written' = Append(written, OutputName(combo.label))
                       /\ successful' = successful + 1
                       /\ skipped' = skipped
    /\ UNCHANGED <<target_definitions, combinations, selected_combinations,
                   template_content, search_mode, sweepVars>>

\* return successful, skipped
GenerateReturn ==
    /\ pc = "loop"
    /\ position = Len(selected_combinations)
    /\ pc' = "returned"
    /\ UNCHANGED <<files, sweepVars, comboVars>>

NextGenerate == GenerateStep \/ GenerateReturn
SpecGenerate == InitGenerate /\ [][NextGenerate]_vars

Range(q) == {q[i] : i \in 1..Len(q)}

\* the positions at which target occurs in text under the search mode
OccursAt(text, mode) ==
    [target \in TargetTexts |->
        {i \in 1..Len(text) :
            /\ i + Len(target) - 1 <= Len(text)
            /\ \A k \in 1..Len(target) :
                  \/ text[i + k - 1] = target[k]
                  \/ mode = "partial" /\ ToLower(text[i + k - 1]) = ToLower(target[k])}]

\* the largest number of occurrences of target in text no two of which
\* overlap
NonOverlapping(text, target, mode) ==
    LET at == OccursAt(text, mode)[target]
        disjoint == {S \in SUBSET at :
                        \A a, b \in S : a < b => a + Len(target) <= b}
    IN SetMax({Cardinality(S) : S \in disjoint})

\* the text the first k pairs of a combination produce from the template
TextAfter(combo, k) ==
    apply_replacements(template_content, SubSeq(combo.pairs, 1, k), search_mode).text

HasZeroCount(combo) ==
    \E k \in 1..Len(combo.pairs) :
        NonOverlapping(TextAfter(combo, k - 1), combo.pairs[k].target.text,
                       search_mode) = 0

\* C2 as stated: generate_files returns for every selection; a combination
\* with a zero count is in the skipped list and not written, every other
\* one is written exactly once under its own name, and the success count
\* plus the number of skipped labels is the number of selected combinations.
C2_EverySelectedSkippedOrWritten ==
    pc # "loop" =>
        /\ pc = "returned"
        /\ successful + Len(skipped) = Len(selected_combinations)
        /\ \A p \in 1..Len(selected_combinations) :
              LET combo == selected_combinations[p] IN
              IF HasZeroCount(combo)
              THEN /\ combo.label \in Range(skipped)
                   /\ OutputName(combo.label) \notin Range(written)
              ELSE /\ Cardinality({w \in 1..Len(written) :
                                      written[w] = OutputName(combo.label)}) = 1
                   /\ OutputName(combo.label) \in DOMAIN files
                   /\ combo.label \notin Range(skipped)

\* the statement of C2 for the exact search mode alone
C2_InExactMode == search_mode = "exact" => C2_EverySelectedSkippedOrWritten

\* C10: the count of the k-th pair of the combination just processed is the
\* number of non-overlapping occurrences of its target (ignoring case in
\* partial mode) in the text the pairs before it produced, and the
\* combination is skipped exactly when one of these counts is zero.
C10_CountsInUpdatedText ==
    position >= 1 =>
        LET combo == selected_combinations[position] IN
        /\ Len(counts) = Len(combo.pairs)
        /\ \A k \in 1..Len(counts) :
              counts[k] = NonOverlapping(TextAfter(combo, k - 1),
                                         combo.pairs[k].target.text, search_mode)
        /\ combo.label \in Range(skipped) <=> \E k \in 1..Len(counts) : counts[k] = 0
        /\ OutputName(combo.label) \in Range(written)
               <=> \A k \in 1..Len(counts) : counts[k] > 0

\* a combination is skipped although each of its two targets occurs in the
\* template
C10_WitnessSkipped ==
    /\ position >= 1
    /\ LET combo == selected_combinations[position] IN
       /\ Len(combo.pairs) = 2
       /\ combo.label \in Range(skipped)
       /\ counts[1] > 0 /\ counts[2] = 0
       /\ \A k \in 1..2 :
             NonOverlapping(template_content, combo.pairs[k].target.text,
                            search_mode) > 0

\* a combination is written although its second target occurs only in the
\* text that replaced the first
C10_WitnessWritten ==
    /\ position >= 1
    /\ LET combo == selected_combinations[position] IN
       /\ Len(combo.pairs) = 2
       /\ OutputName(combo.label) \in Range(written)
       /\ NonOverlapping(template_content, combo.pairs[2].target.text,
                         search_mode) = 0
       /\ counts[2] > 0

=============================================================================
